---------------------------- MODULE Spec2Model ----------------------------
(* In-memory task repository and task service of src/source/index.ts:     *)
(* Task, TaskRepository, TaskService, and the one place where a caller    *)
(* keeps the array returned by listarTarefas (TaskView.renderListTask).   *)
(* Objects have identity: a Task is a cell of `heap`, a reference is its  *)
(* index, and the repository's array is a sequence of references.         *)
EXTENDS Integers, Sequences, FiniteSets

\* ------------------------------------------------------------- bounds
\* Number of Task objects ever constructed.
MaxTasks == 3
\* Largest reading of the millisecond clock (Date.now(), as an offset).
MaxClock == 1

\* ------------------------------------------------------------- inputs
\* The form's field values (title, description, due date) a caller passes.
Inputs ==
    { [title |-> "Buy milk", description |-> "2% fat", dueDate |-> "2024-01-10"],
      [title |-> "Pay rent", description |-> "", dueDate |-> "2024-01-05"] }
\* ids a caller may pass: every clock reading, used by a task or not.
Ids == 0..MaxClock

\* --------------------------------------------------------------- Task
Pendente == "pendente"
Concluida == "concluída"
\* `undefined`, the result of Array.prototype.find when nothing matches.
Undefined == 0

VARIABLES
    now,        \* current reading of the clock behind Date.now()
    heap,       \* heap[r]: the fields of the Task object with reference r
    tasks,      \* TaskRepository.tasks: the references in the current array
    held,       \* the array a caller got from listarTarefas(), as it reads now
    heldAlias,  \* TRUE iff that array is the very object this.tasks refers to
    lastOp      \* the last createTask / taskDone / removeTask call

vars == <<now, heap, tasks, held, heldAlias, lastOp>>

\* Variant: the constructor's default status is the final one.
NewTask_DefaultDone(id, title, description, dueDate) ==
    [id |-> id, title |-> title, description |-> description,
     dueDate |-> dueDate, status |-> Concluida]

\* new Task(id, title, description, dueDate): status defaults to "pendente".
NewTask(id, title, description, dueDate) ==
    [id |-> id, title |-> title, description |-> description,
     dueDate |-> dueDate, status |-> Pendente]

\* Task.alterarStatus
AlterarStatus(task, newStatus) == [task EXCEPT !.status = newStatus]

\* ----------------------------------------------------- TaskRepository
\* Variant: this.tasks.unshift(task).
AdicionarTarefa_Unshift(ts, task) == <<task>> \o ts

\* this.tasks.push(task)
AdicionarTarefa(ts, task) == Append(ts, task)

\* Position of the first element with the id, 0 when there is none
\* (findIndex, shifted to the 1-based positions of a sequence).
FindIndex(ts, h, id) ==
    LET hits == {k \in 1..Len(ts) : h[ts[k]].id = id}
    IN  IF hits = {} THEN 0 ELSE CHOOSE k \in hits : \A m \in hits : k <= m

\* ts with the element at position k taken out.
DropAt(ts, k) == [m \in 1..(Len(ts) - 1) |-> IF m < k THEN ts[m] ELSE ts[m + 1]]

\* Variant: const i = findIndex(...); if (i >= 0) this.tasks.splice(i, 1).
RepositoryRemoveTask_FirstOnly(ts, h, id) ==
    IF FindIndex(ts, h, id) = 0 THEN ts ELSE DropAt(ts, FindIndex(ts, h, id))

\* Variant: this.tasks.splice(findIndex(...), 1); with no match the index
\* is -1 and splice(-1, 1) takes out the last element.
RepositoryRemoveTask_Splice(ts, h, id) ==
    IF ts = <<>> THEN ts
    ELSE IF FindIndex(ts, h, id) = 0 THEN DropAt(ts, Len(ts))
    ELSE DropAt(ts, FindIndex(ts, h, id))

\* Variant: the filter's test is inverted (=== for !==).
RepositoryRemoveTask_Inverted(ts, h, id) == SelectSeq(ts, LAMBDA r : h[r].id = id)

\* this.tasks.filter(task => task.id !== id)
RepositoryRemoveTask(ts, h, id) == SelectSeq(ts, LAMBDA r : h[r].id # id)

\* this.tasks.find(task => task.id === id): the first match, or undefined
BuscarTarefaPorId(ts, h, id) ==
    LET hits == {k \in 1..Len(ts) : h[ts[k]].id = id}
    IN  IF hits = {} THEN Undefined
        ELSE ts[CHOOSE k \in hits : \A m \in hits : k <= m]

\* return this.tasks
ListarTarefas == tasks

\* -------------------------------------------------------- TaskService
\* Variant: every task with the id is marked, not only the one find returns.
TaskDoneHeap_All(ts, h, id) ==
    [r \in 1..Len(h) |->
        IF h[r].id = id /\ \E k \in 1..Len(ts) : ts[k] = r
        THEN [h[r] EXCEPT !.status = Concluida]
        ELSE h[r]]

\* The heap after taskDone(id): if (task) task.alterarStatus("concluida").
TaskDoneHeap(ts, h, id) ==
    LET task == BuscarTarefaPorId(ts, h, id)
    IN  IF task # Undefined
        THEN [h EXCEPT ![task] = AlterarStatus(h[task], Concluida)]
        ELSE h

\* A method call on a reference throws a TypeError iff it is undefined.
MethodCallThrows(ref) == ref = Undefined

\* Whether taskDone(id) throws: `if (task)` guards the only method call.
TaskDoneThrows(ts, h, id) ==
    LET task == BuscarTarefaPorId(ts, h, id)
    IN  IF task # Undefined THEN MethodCallThrows(task) ELSE FALSE

\* The record of a call: its name, its id (the one passed, or the one
\* createTask assigned), the Task reference returned, whether the store
\* held a task with that id when the call started, whether it threw, and
\* whether it repeats the previous call, which had found its id.
Call(op, id, ret, threw) ==
    [op |-> op, id |-> id, ret |-> ret,
     found |-> BuscarTarefaPorId(tasks, heap, id) # Undefined,
     threw |-> threw,
     again |-> lastOp.op = op /\ lastOp.id = id /\ lastOp.found]

NoCall ==
    [op |-> "none", id |-> 0, ret |-> Undefined,
     found |-> FALSE, threw |-> FALSE, again |-> FALSE]

Init ==
    /\ now = 0
    /\ heap = <<>>
    /\ tasks = <<>>
    /\ held = <<>>
    /\ heldAlias = FALSE
    /\ lastOp = NoCall

\* Time passes between two calls.
Tick ==
    /\ now < MaxClock
    /\ now' = now + 1
    /\ UNCHANGED <<heap, tasks, held, heldAlias, lastOp>>

\* TaskService.createTask: the id is Date.now(); push mutates the array in
\* place, so a caller holding that same array sees the new element.
CreateTask(title, description, dueDate) ==
    /\ Len(heap) < MaxTasks
    /\ LET ref == Len(heap) + 1
       IN  /\ heap' = Append(heap, NewTask(now, title, description, dueDate))
           /\ tasks' = AdicionarTarefa(tasks, ref)
           /\ held' = IF heldAlias THEN AdicionarTarefa(held, ref) ELSE held
           /\ lastOp' = Call("createTask", now, ref, FALSE)
    /\ UNCHANGED <<now, heldAlias>>

\* TaskService.taskDone
TaskDone(id) ==
    /\ heap' = TaskDoneHeap(tasks, heap, id)
    /\ lastOp' = Call("taskDone", id, Undefined, TaskDoneThrows(tasks, heap, id))
    /\ UNCHANGED <<now, tasks, held, heldAlias>>

\* TaskService.removeTask: filter builds a new array and this.tasks is
\* re-pointed to it, so an array handed out earlier is left behind.
RemoveTask(id) ==
    /\ tasks' = RepositoryRemoveTask(tasks, heap, id)
    /\ heldAlias' = FALSE
    /\ lastOp' = Call("removeTask", id, Undefined, FALSE)
    /\ UNCHANGED <<now, heap, held>>

\* const tasks = this.taskService.listarTarefas(): the caller now holds the
\* repository's own array.
RenderListTask ==
    /\ held' = ListarTarefas
    /\ heldAlias' = TRUE
    /\ UNCHANGED <<now, heap, tasks, lastOp>>

DoCreateTask == \E i \in Inputs : CreateTask(i.title, i.description, i.dueDate)
DoTaskDone == \E id \in Ids : TaskDone(id)
DoRemoveTask == \E id \in Ids : RemoveTask(id)

Next ==
    \/ Tick
    \/ DoCreateTask
    \/ DoTaskDone
    \/ DoRemoveTask
    \/ RenderListTask

Spec == Init /\ [][Next]_vars


\* ------------------------------------------------------------ properties
\* The id of the task at position k of a list.
IdAt(ts, h, k) == h[ts[k]].id

\* Whether some task of the list has the id.
HasId(ts, h, id) == \E k \in 1..Len(ts) : IdAt(ts, h, k) = id

\* How many positions of the list hold reference r.
Occurrences(ts, r) == Cardinality({k \in 1..Len(ts) : ts[k] = r})

\* The list without the tasks that have the id, by recursion on the list.
RECURSIVE Without(_, _, _)
Without(ts, h, id) ==
    IF ts = <<>> THEN <<>>
    ELSE IF h[Head(ts)].id = id THEN Without(Tail(ts), h, id)
    ELSE <<Head(ts)>> \o Without(Tail(ts), h, id)

\* Whether r is the first task in list order that has the id.
IsFirstWithId(ts, h, r, id) ==
    \E k \in 1..Len(ts) :
        /\ ts[k] = r
        /\ IdAt(ts, h, k) = id
        /\ \A m \in 1..(k - 1) : IdAt(ts, h, m) # id

\* C1: no two tasks held by the repository have the same id.
C1_UniqueIds ==
    \A i, j \in 1..Len(tasks) : i # j => IdAt(tasks, heap, i) # IdAt(tasks, heap, j)

\* C2: after createTask returns t, listarTarefas() is the previous list with
\* t appended, holds t exactly once, and buscarTarefaPorId(t.id) returns t.
C2_CreateAppendsAndFinds ==
    [][(lastOp'.op = "createTask" /\ lastOp' # lastOp) =>
        /\ ListarTarefas' = Append(ListarTarefas, lastOp'.ret)
        /\ Occurrences(ListarTarefas', lastOp'.ret) = 1
        /\ BuscarTarefaPorId(tasks', heap', heap'[lastOp'.ret].id) = lastOp'.ret
      ]_vars

\* C3: a task is pending when createTask returns it, the only status change
\* is pending -> done and only taskDone makes it, and a done task stays done.
C3_StatusMachine ==
    [][/\ \A r \in (Len(heap) + 1)..Len(heap') :
            /\ heap'[r].status = Pendente
            /\ lastOp'.op = "createTask" /\ lastOp'.ret = r
       /\ \A r \in 1..Len(heap) :
            /\ heap'[r].status # heap[r].status =>
                  /\ heap[r].status = Pendente
                  /\ heap'[r].status = Concluida
                  /\ lastOp'.op = "taskDone"
            /\ heap[r].status = Concluida => heap'[r].status = Concluida
      ]_vars

\* C3 witness: taskDone was called a second time on a task that is done and
\* still in the store.
C3_Witness ==
    /\ lastOp.op = "taskDone" /\ lastOp.again
    /\ \E k \in 1..Len(tasks) :
          IdAt(tasks, heap, k) = lastOp.id /\ heap[tasks[k]].status = Concluida

\* C4: after removeTask(id) on an id the store held, the list has no task
\* with that id; a second removeTask(id) changes nothing and throws nothing.
C4_RemoveTwice ==
    [][/\ (lastOp'.op = "removeTask" /\ lastOp'.found) =>
            ~HasId(ListarTarefas', heap', lastOp'.id)
       /\ (lastOp'.op = "removeTask" /\ lastOp'.again) =>
            /\ tasks' = tasks
            /\ heap' = heap
            /\ ~lastOp'.threw
      ]_vars

\* C4 witness: the second removeTask(id) has run, after a first one that
\* removed a task, and other tasks are still in the store.
C4_Witness ==
    /\ lastOp.op = "removeTask" /\ lastOp.again /\ ~lastOp.found
    /\ tasks # <<>>

\* C5: after taskDone(i) every task of the store with id i is done, and a
\* second taskDone(i) leaves the store as the first one left it.
C5_TaskDoneMarksAndIsIdempotent ==
    [][/\ (lastOp'.op = "taskDone" /\ lastOp'.found) =>
            \A k \in 1..Len(tasks') :
                IdAt(tasks', heap', k) = lastOp'.id =>
                    heap'[tasks'[k]].status = Concluida
       /\ (lastOp'.op = "taskDone" /\ lastOp'.again) =>
            tasks' = tasks /\ heap' = heap
      ]_vars

\* C6: taskDone(id) and removeTask(id) with an id no task of the store has
\* leave the list and every task's fields unchanged and throw nothing.
C6_MissingIdIsNoOp ==
    [][(lastOp'.op \in {"taskDone", "removeTask"} /\ ~HasId(tasks, heap, lastOp'.id)) =>
        /\ ListarTarefas' = ListarTarefas
        /\ heap' = heap
        /\ ~lastOp'.threw
      ]_vars

\* C6 witness: taskDone ran with a stale id (its task was removed) while
\* other tasks are in the store.
C6_Witness ==
    /\ lastOp.op = "taskDone" /\ ~lastOp.found
    /\ \E r \in 1..Len(heap) : heap[r].id = lastOp.id /\ Occurrences(tasks, r) = 0
    /\ tasks # <<>>

\* C7: listarTarefas() lists the tasks in the order they were created
\* (references are handed out in creation order).
C7_CreationOrder ==
    \A i, j \in 1..Len(ListarTarefas) :
        i < j => ListarTarefas[i] < ListarTarefas[j]

\* C7 witness: after three creations, a taskDone and a removeTask that took
\* a task out, two tasks remain, one of them done.
C7_Witness ==
    /\ lastOp.op = "removeTask" /\ lastOp.found
    /\ Len(tasks) >= 2 /\ Len(heap) > Len(tasks)
    /\ \E k \in 1..Len(tasks) : heap[tasks[k]].status = Concluida

\* C8: removeTask(id) leaves exactly the previous list filtered to the tasks
\* whose id differs, and no task's fields change.  (The filter is idempotent,
\* so the steps that follow the call and leave the store alone satisfy it too.)
C8_RemoveFrame ==
    [][lastOp'.op = "removeTask" =>
        /\ ListarTarefas' = Without(ListarTarefas, heap, lastOp'.id)
        /\ heap' = heap
      ]_vars

\* C8 witness: removeTask took a task out and left a done task and a pending
\* task behind.
C8_Witness ==
    /\ lastOp.op = "removeTask" /\ lastOp.found
    /\ \E k \in 1..Len(tasks) : heap[tasks[k]].status = Concluida
    /\ \E k \in 1..Len(tasks) : heap[tasks[k]].status = Pendente

\* C9: the sequence a caller got from listarTarefas() keeps its membership
\* and length across later createTask and removeTask calls.
C9_ListIsSnapshot ==
    [][(lastOp'.op \in {"createTask", "removeTask"} /\ lastOp' # lastOp) =>
        held' = held
      ]_vars

\* C10: taskDone(id) keeps the list, the number of tasks and every field but
\* status, and changes the status of no task other than the first one in
\* list order that has the id.
C10_TaskDoneFrame ==
    [][lastOp'.op = "taskDone" =>
        /\ ListarTarefas' = ListarTarefas
        /\ Len(heap') = Len(heap)
        /\ \A r \in 1..Len(heap) :
            /\ [heap'[r] EXCEPT !.status = heap[r].status] = heap[r]
            /\ ~IsFirstWithId(tasks, heap, r, lastOp'.id) =>
                  heap'[r].status = heap[r].status
      ]_vars

\* C10 witness: taskDone ran on an id two tasks of the store share; the
\* first is done and the second still pending.
C10_Witness ==
    /\ lastOp.op = "taskDone" /\ lastOp.found
    /\ \E i, j \in 1..Len(tasks) :
        /\ i < j
        /\ IdAt(tasks, heap, i) = lastOp.id /\ IdAt(tasks, heap, j) = lastOp.id
        /\ heap[tasks[i]].status = Concluida
        /\ heap[tasks[j]].status = Pendente
=============================================================================
